---- MODULE Spec2Model ----
(***************************************************************************)
(* Stride scheduler (os/src/task/manager.rs), run loop                     *)
(* (os/src/task/processor.rs) and three-level page table                   *)
(* (os/src/mm/page_table.rs) of the rCore teaching kernel.                 *)
(***************************************************************************)
EXTENDS Integers, Sequences, FiniteSets, TLC

\* ------------------------------------------------------------------ bounds
NumTasks == 3
MaxFetches == 5
MaxRounds == 20
NumFrames == 4
MaxVpnSel == 4
MaxPpn == 1
MaxOps == 3
MaxMmPages == 2
MaxMmOps == 3
MaxSyscallTimes == 2
MaxAcctFetches == 3

\* ---------------------------------------------------------------- constants
BIG_STRIDE == 268435456
PTE_V == 1
PTE_R == 2
PTE_W == 4
PTE_X == 8
PTE_U == 16
PPN_SHIFT == 10
PPN_WIDTH == 44
INDEX_BITS == 9
PAGE_SIZE == 4096
MAX_SYSCALL_NUM == 500
SATP_MODE == 8

Tasks == 1..NumTasks
None == 0
PrioChoices == {1, 2, 3, 4}
RoundPrios == {1, 2, 3, 4, 8}

\* ------------------------------------------------------------ isize (64 bit)
\* An isize is held as three limbs <<top, mid, low>> of 8 + 28 + 28 bits,
\* top signed (-128..127), mid and low unsigned: value = top*2^56 + mid*2^28 + low.
Limb == 2^28
TopSpan == 2^8

ToIsize(n) == <<0, n \div Limb, n % Limb>>

\* `a < b` on isize
IsizeLt(a, b) ==
    \/ a[1] < b[1]
    \/ a[1] = b[1] /\ a[2] < b[2]
    \/ a[1] = b[1] /\ a[2] = b[2] /\ a[3] < b[3]

\* `a + b` on isize, two's complement (the release profile wraps)
IsizeAdd(a, b) ==
    LET low == a[3] + b[3]
        mid == a[2] + b[2] + (low \div Limb)
        top == (((a[1] + TopSpan) % TopSpan) + ((b[1] + TopSpan) % TopSpan)
                  + (mid \div Limb)) % TopSpan
    IN  << IF top >= TopSpan \div 2 THEN top - TopSpan ELSE top,
           mid % Limb, low % Limb >>

\* `a + b` leaves the range of isize (b positive): the sum of two's complement
\* is below a
IsizeOverflows(a, b) == IsizeLt(IsizeAdd(a, b), a)

\* `a <= b + h` in the integers, for 0 <= h < 2^28 (the sum is not wrapped)
IsizeWithin(a, b, h) ==
    LET low == b[3] + h
        mid == b[2] + (low \div Limb)
        sum == <<b[1] + (mid \div Limb), mid % Limb, low % Limb>>
    IN  ~IsizeLt(sum, a)

\* the integer an isize holds, for values below 2^31
IsizeVal(a) == (a[2] * Limb) + a[3]

\* ------------------------------------------------------------------- state
VARIABLES
    ready_queue,   \* TaskManager.ready_queue: sequence of task ids
    tcb,           \* created TCBs: id -> [task_status, stride, priority, task_info]
    current,       \* Processor.current: a task id or None
    task,          \* run_tasks' local `task`: the fetched TCB or None
    pc,            \* where control is: boot, idle, fetched, task, schedule, panicked
    selections,    \* history: the tasks fetch_min_task returned, in order
    borrowed       \* the cells whose exclusive-access guard is held

schedVars == <<ready_queue, tcb, current, task, pc, selections, borrowed>>

VARIABLES
    mem,          \* physical frames as PTE arrays: ppn -> index -> bits
    pool,         \* the Frame Provider's free frames, next one to hand out first
    page_table,   \* the PageTable: [root_ppn, frames]
    pt_last,      \* the last call made: [op, vpn, ppn, flags, ret, panic]
    pt_count,     \* the number of calls made
    pt_pc         \* run, panicked (off while the table is not exercised)

ptVars == <<mem, pool, page_table, pt_last, pt_count, pt_pc>>

\* ------------------------------------------------------------ TaskManager
\* TaskManager::add
add(q, t) == Append(q, t)

\* mutant: `<=` in place of `<`, so the last of several equal strides wins
RECURSIVE ScanMin_LastMin(_, _, _, _)
ScanMin_LastMin(q, tc, i, min_tcb) ==
    IF i > Len(q) THEN min_tcb
    ELSE IF ~IsizeLt(tc[min_tcb].stride, tc[q[i]].stride)
         THEN ScanMin_LastMin(q, tc, i + 1, q[i])
         ELSE ScanMin_LastMin(q, tc, i + 1, min_tcb)

\* the scan of fetch_min_step_and_add_pass: min_tcb after visiting q[i..]
RECURSIVE ScanMin(_, _, _, _)
ScanMin(q, tc, i, min_tcb) ==
    IF i > Len(q) THEN min_tcb
    ELSE IF IsizeLt(tc[q[i]].stride, tc[min_tcb].stride)
         THEN ScanMin(q, tc, i + 1, q[i])
         ELSE ScanMin(q, tc, i + 1, min_tcb)

\* ready_queue.iter().position(|t| Arc::ptr_eq(t, &min_tcb))
Position(q, t) ==
    IF \E i \in 1..Len(q) : q[i] = t
    THEN CHOOSE i \in 1..Len(q) : q[i] = t /\ \A j \in 1..(i - 1) : q[j] # t
    ELSE 0

\* mutant: the entry found stays in the queue
RemoveAt_Keep(q, idx) == q

\* ready_queue.remove(index)
RemoveAt(q, idx) ==
    IF idx = 0 THEN q
    ELSE [k \in 1..(Len(q) - 1) |-> IF k < idx THEN q[k] ELSE q[k + 1]]

\* mutant: the quotient rounded up
Pass_RoundedUp(prio) == (BIG_STRIDE + prio - 1) \div prio

\* mutant: the pass does not depend on the priority
Pass_Flat(prio) == BIG_STRIDE

\* BIG_STRIDE / priority (isize division, both operands positive)
Pass(prio) == BIG_STRIDE \div prio

\* TaskManager::fetch_min_step_and_add_pass.  `panic` is the index-out-of-bounds
\* abort of ready_queue[0] on an empty queue, or the division by a zero priority;
\* `overflow` says that the stride addition left the range of isize.
fetch_min_step_and_add_pass(q, tc) ==
    IF Len(q) = 0
    THEN [panic |-> TRUE, ret |-> None, ready_queue |-> q, tcb |-> tc,
          overflow |-> FALSE]
    ELSE LET min_tcb == ScanMin(q, tc, 1, q[1])
         IN  IF tc[min_tcb].priority = 0
             THEN [panic |-> TRUE, ret |-> None,
                   ready_queue |-> RemoveAt(q, Position(q, min_tcb)), tcb |-> tc,
                   overflow |-> FALSE]
             ELSE [panic |-> FALSE, ret |-> min_tcb,
                   ready_queue |-> RemoveAt(q, Position(q, min_tcb)),
                   tcb |-> [tc EXCEPT ![min_tcb].stride =
                              IsizeAdd(@, ToIsize(Pass(tc[min_tcb].priority)))],
                   overflow |-> IsizeOverflows(tc[min_tcb].stride,
                                               ToIsize(Pass(tc[min_tcb].priority)))]

\* ------------------------------------------------------- exclusive access
\* the cells behind UPSafeCell: the Processor, the Task Manager, each TCB
PROCESSOR == <<"PROCESSOR", 0>>
TASK_MANAGER == <<"TASK_MANAGER", 0>>
Inner(t) == <<"TCB", t>>
Conflict == <<"BorrowMutError", 0>>

acq(cell) == <<"acq", cell>>
rel(cell) == <<"rel", cell>>

\* The guards held after the acquisitions and releases ev, made one after the
\* other with held already held.  exclusive_access on a cell whose guard is
\* held panics: Conflict is put in the set and nothing after it is done.
RECURSIVE Borrows(_, _)
Borrows(held, ev) ==
    IF ev = <<>> \/ Conflict \in held THEN held
    ELSE IF Head(ev)[1] = "rel" THEN Borrows(held \ {Head(ev)[2]}, Tail(ev))
    ELSE IF Head(ev)[2] \in held THEN held \cup {Conflict}
    ELSE Borrows(held \cup {Head(ev)[2]}, Tail(ev))

\* add_task: TASK_MANAGER.exclusive_access().add(task)
AddTaskBorrows == <<acq(TASK_MANAGER), rel(TASK_MANAGER)>>

\* the loop of fetch_min_step_and_add_pass: each entry's inner is borrowed for
\* one iteration
RECURSIVE ScanBorrows(_)
ScanBorrows(q) ==
    IF q = <<>> THEN <<>>
    ELSE <<acq(Inner(Head(q))), rel(Inner(Head(q)))>> \o ScanBorrows(Tail(q))

\* run_tasks up to the return of fetch_min_task: PROCESSOR stays borrowed; on
\* an empty queue the panic comes with PROCESSOR and TASK_MANAGER borrowed
FetchBorrows(q, min_tcb) ==
    IF q = <<>> THEN <<acq(PROCESSOR), acq(TASK_MANAGER)>>
    ELSE <<acq(PROCESSOR), acq(TASK_MANAGER), acq(Inner(q[1])), rel(Inner(q[1]))>>
           \o ScanBorrows(q)
           \o <<acq(Inner(min_tcb)), rel(Inner(min_tcb)), rel(TASK_MANAGER)>>

\* mutant: run_tasks keeps its PROCESSOR guard over __switch
SwitchBorrows_KeepProcessor(t) == <<acq(Inner(t)), rel(Inner(t))>>

\* run_tasks, the Some(task) arm: task_inner taken and dropped, then processor
\* dropped, before __switch
SwitchBorrows(t) == <<acq(Inner(t)), rel(Inner(t)), rel(PROCESSOR)>>

\* schedule: processor taken and dropped before __switch
ScheduleBorrows == <<acq(PROCESSOR), rel(PROCESSOR)>>

\* suspend / exit: take_current_task, the task's inner, then add_task
LeaveBorrows(t) == <<acq(PROCESSOR), rel(PROCESSOR), acq(Inner(t)), rel(Inner(t))>>

\* add_processor_syscall_times: PROCESSOR.exclusive_access().update_task_info,
\* which borrows the current task's inner
UpdateBorrows(t) == <<acq(PROCESSOR), acq(Inner(t)), rel(Inner(t)), rel(PROCESSOR)>>

\* ------------------------------------------------------------- accounting
\* TaskInfo::new: no syscall counted (syscall_times holds the counters that
\* are not zero, an index that is absent counts 0)
TaskInfo_new(status) == [status |-> status, syscall_times |-> <<>>]

\* syscall_times[index]
SyscallTimes(info, index) ==
    IF index \in DOMAIN info.syscall_times THEN info.syscall_times[index] ELSE 0

\* TaskInfo::set_status
set_status(info, status) == [info EXCEPT !.status = status]

\* mutant: the bound test lets index MAX_SYSCALL_NUM through
add_syscall_time_OffByOne(info, index) ==
    IF index <= MAX_SYSCALL_NUM
    THEN [info EXCEPT !.syscall_times =
            [i \in DOMAIN info.syscall_times \cup {index} |->
                IF i = index THEN SyscallTimes(info, index) + 1
                ELSE info.syscall_times[i]]]
    ELSE info

\* TaskInfo::add_syscall_time
add_syscall_time(info, index) ==
    IF index < MAX_SYSCALL_NUM
    THEN [info EXCEPT !.syscall_times =
            [i \in DOMAIN info.syscall_times \cup {index} |->
                IF i = index THEN SyscallTimes(info, index) + 1
                ELSE info.syscall_times[i]]]
    ELSE info

\* Processor::update_task_info on the TCB t that is current
update_task_info(t, syscall, add_flag) ==
    IF add_flag
    THEN [t EXCEPT !.task_info =
            add_syscall_time(set_status(t.task_info, t.task_status), syscall)]
    ELSE [t EXCEPT !.task_info = set_status(t.task_info, t.task_status)]

\* --------------------------------------------------------------- Processor

\* task creation: a TCB with stride 0 in Ready status, handed to add_task
NewTask(p) ==
    /\ pc \in {"boot", "task"}
    /\ Cardinality(DOMAIN tcb) < NumTasks
    /\ borrowed' = Borrows(borrowed, AddTaskBorrows)
    /\ IF Conflict \in borrowed'
       THEN pc' = "panicked" /\ UNCHANGED <<ready_queue, tcb>>
       ELSE /\ LET t == Cardinality(DOMAIN tcb) + 1
               IN  /\ tcb' = [x \in DOMAIN tcb \cup {t} |->
                                IF x = t THEN [task_status |-> "Ready",
                                               stride |-> ToIsize(0),
                                               priority |-> p,
                                               task_info |-> TaskInfo_new("UnInit")]
                                ELSE tcb[x]]
                   /\ ready_queue' = add(ready_queue, t)
            /\ pc' = pc
    /\ UNCHANGED <<current, task, selections>>
    /\ UNCHANGED ptVars

\* the kernel's entry calls run_tasks once the first task is queued
StartRunTasks ==
    /\ pc = "boot"
    /\ Len(ready_queue) > 0
    /\ pc' = "idle"
    /\ UNCHANGED <<ready_queue, tcb, current, task, selections, borrowed>>
    /\ UNCHANGED ptVars

\* run_tasks, top of the loop: borrow PROCESSOR, fetch_min_task().  An
\* overflowing stride addition wraps in a build without overflow checks and
\* panics in a build with them.
RunTasksFetch(limit) ==
    /\ pc = "idle"
    /\ Len(selections) < limit
    /\ \E r \in {fetch_min_step_and_add_pass(ready_queue, tcb)} :
        \E overflow_checks \in (IF r.overflow THEN BOOLEAN ELSE {FALSE}) :
           /\ borrowed' = Borrows(borrowed, FetchBorrows(ready_queue, r.ret))
           /\ IF r.panic \/ Conflict \in borrowed' \/ (r.overflow /\ overflow_checks)
              THEN /\ pc' = "panicked"
                   /\ UNCHANGED <<ready_queue, tcb, current, task, selections>>
              ELSE /\ ready_queue' = r.ready_queue
                   /\ tcb' = r.tcb
                   /\ task' = r.ret
                   /\ IF r.ret = None
                      THEN pc' = "idle" /\ selections' = selections
                      ELSE pc' = "fetched" /\ selections' = Append(selections, r.ret)
                   /\ UNCHANGED current
    /\ UNCHANGED ptVars

\* mutant: the context transfer is made without marking the task Running
RunTasksSwitch_NoStatus ==
    /\ pc = "fetched"
    /\ borrowed' = Borrows(borrowed, SwitchBorrows(task))
    /\ current' = task
    /\ task' = None
    /\ pc' = "task"
    /\ UNCHANGED <<ready_queue, tcb, selections>>
    /\ UNCHANGED ptVars

\* run_tasks, the Some(task) arm: status Running, current = task, __switch
RunTasksSwitch ==
    /\ pc = "fetched"
    /\ borrowed' = Borrows(borrowed, SwitchBorrows(task))
    /\ IF Conflict \in borrowed'
       THEN pc' = "panicked" /\ UNCHANGED <<tcb, current, task>>
       ELSE /\ tcb' = [tcb EXCEPT ![task].task_status = "Running"]
            /\ current' = task
            /\ task' = None
            /\ pc' = "task"
    /\ UNCHANGED <<ready_queue, selections>>
    /\ UNCHANGED ptVars

\* suspend_current_and_run_next up to its call of schedule
Suspend ==
    /\ pc = "task"
    /\ current # None
    /\ borrowed' = Borrows(borrowed, LeaveBorrows(current) \o AddTaskBorrows)
    /\ IF Conflict \in borrowed'
       THEN pc' = "panicked" /\ UNCHANGED <<tcb, ready_queue, current>>
       ELSE /\ tcb' = [tcb EXCEPT ![current].task_status = "Ready"]
            /\ ready_queue' = add(ready_queue, current)
            /\ current' = None
            /\ pc' = "schedule"
    /\ UNCHANGED <<task, selections>>
    /\ UNCHANGED ptVars

\* exit_current_and_run_next up to its call of schedule
Exit ==
    /\ pc = "task"
    /\ current # None
    /\ borrowed' = Borrows(borrowed, LeaveBorrows(current))
    /\ IF Conflict \in borrowed'
       THEN pc' = "panicked" /\ UNCHANGED <<tcb, current>>
       ELSE /\ tcb' = [tcb EXCEPT ![current].task_status = "Exited"]
            /\ current' = None
            /\ pc' = "schedule"
    /\ UNCHANGED <<ready_queue, task, selections>>
    /\ UNCHANGED ptVars

\* schedule: __switch back into the idle context, which resumes run_tasks
schedule ==
    /\ pc = "schedule"
    /\ borrowed' = Borrows(borrowed, ScheduleBorrows)
    /\ pc' = IF Conflict \in borrowed' THEN "panicked" ELSE "idle"
    /\ UNCHANGED <<ready_queue, tcb, current, task, selections>>
    /\ UNCHANGED ptVars

\* a syscall of the running task: add_processor_syscall_times(syscall), or
\* update_task_info(syscall, false) as get_current_task_info makes it
UpdateTaskInfo(syscall, add_flag) ==
    /\ pc = "task"
    /\ current # None
    /\ SyscallTimes(tcb[current].task_info, syscall) < MaxSyscallTimes
    /\ borrowed' = Borrows(borrowed, UpdateBorrows(current))
    /\ IF Conflict \in borrowed'
       THEN pc' = "panicked" /\ UNCHANGED tcb
       ELSE /\ tcb' = [tcb EXCEPT ![current] = update_task_info(@, syscall, add_flag)]
            /\ pc' = pc
    /\ UNCHANGED <<ready_queue, current, task, selections>>
    /\ UNCHANGED ptVars

\* ------------------------------------------------------------- page table
\* bit i of x
Bit(x, i) == (x \div (2^i)) % 2

\* `a & b` and `a | b` on the eight flag bits
BitAnd8(a, b) ==
      Bit(a, 0) * Bit(b, 0)       + Bit(a, 1) * Bit(b, 1) * 2
    + Bit(a, 2) * Bit(b, 2) * 4   + Bit(a, 3) * Bit(b, 3) * 8
    + Bit(a, 4) * Bit(b, 4) * 16  + Bit(a, 5) * Bit(b, 5) * 32
    + Bit(a, 6) * Bit(b, 6) * 64  + Bit(a, 7) * Bit(b, 7) * 128

BitOr8(a, b) == a + b - BitAnd8(a, b)

\* x & ((1 << w) - 1); every word of the model is below 2^31
LowBits(x, w) == IF w >= 31 THEN x ELSE x % (2^w)

\* PageTableEntry::new: ppn << 10 | flags
PageTableEntry_new(ppn, flags) == (ppn * (2^PPN_SHIFT)) + flags

\* PageTableEntry::empty
PageTableEntry_empty == 0

\* PageTableEntry::ppn: bits >> 10 & ((1 << 44) - 1)
pte_ppn(bits) == LowBits(bits \div (2^PPN_SHIFT), PPN_WIDTH)

\* PageTableEntry::flags: from_bits(bits as u8)
pte_flags(bits) == bits % (2^8)

\* PageTableEntry::is_valid
is_valid(bits) == BitAnd8(pte_flags(bits), PTE_V) # 0

\* VirtPageNum::indexes: the three 9-bit indices, most significant first
indexes(vpn) ==
    << (vpn \div (2^(2 * INDEX_BITS))) % (2^INDEX_BITS),
       (vpn \div (2^INDEX_BITS)) % (2^INDEX_BITS),
       vpn % (2^INDEX_BITS) >>

\* the VPNs, PPNs and flag sets the operations are called with
VpnOf(i) == (i % 2) + ((i \div 2) % 2) * (2^INDEX_BITS)
              + ((i \div 4) % 2) * (2^(2 * INDEX_BITS))
VPNs == {VpnOf(i) : i \in 0..MaxVpnSel}
PPNs == 0..MaxPpn
FlagChoices == {PTE_R + PTE_W + PTE_U, PTE_V + PTE_X}
FrameIds == 1..NumFrames
\* the ranges mmap, munmap and translated_byte_buffer are called with: the
\* first page of a range and its length in pages
MmStartVpns == {0, 1, (2^INDEX_BITS) - 1}
MmLens == {k * PAGE_SIZE : k \in 1..MaxMmPages}
AllVpns == VPNs \cup {v + d : v \in MmStartVpns, d \in 0..MaxMmPages}
PortChoices == 0..7
\* every PPN an entry can hold: the frames and the PPNs map is called with
MemPpns == 0..(IF MaxPpn > NumFrames THEN MaxPpn ELSE NumFrames)
IdxUsed == UNION {{indexes(v)[1], indexes(v)[2], indexes(v)[3]} : v \in AllVpns}
ZeroFrame == [i \in IdxUsed |-> 0]
NoSlot == <<>>
NoPte == <<>>

\* One directory level of find_pte_create.  w = [s, next]: the machine state
\* s = [mem, pool, frames, panic] and the frame `ppn` the walk stands on; the
\* result is the same after the level at slot idx.  An invalid entry takes the
\* pool's next frame, handed out zeroed; frame_alloc().unwrap() panics on an
\* empty pool.
StepCreate(w, idx) ==
    IF w.s.panic THEN w
    ELSE IF is_valid(w.s.mem[w.next][idx])
    THEN [s |-> w.s, next |-> pte_ppn(w.s.mem[w.next][idx])]
    ELSE IF w.s.pool = <<>>
    THEN [s |-> [w.s EXCEPT !.panic = TRUE], next |-> 0]
    ELSE [s |-> [mem    |-> [w.s.mem EXCEPT
                               ![Head(w.s.pool)] = ZeroFrame,
                               ![w.next][idx] = PageTableEntry_new(Head(w.s.pool), PTE_V)],
                 pool   |-> Tail(w.s.pool),
                 frames |-> Append(w.s.frames, Head(w.s.pool)),
                 panic  |-> FALSE],
          next |-> Head(w.s.pool)]

\* the leaf slot <<frame, index>> the walk w ends on
LeafSlot(w, idx) == [s |-> w.s, slot |-> <<w.next, idx>>]

\* PageTable::find_pte_create: [s, slot]
find_pte_create(s, root_ppn, vpn) ==
    LeafSlot(StepCreate(StepCreate([s |-> s, next |-> root_ppn], indexes(vpn)[1]),
                        indexes(vpn)[2]),
             indexes(vpn)[3])

\* one directory level of find_pte: the next frame, or NoSlot
StepFind(m, ppn, idx) ==
    IF ppn = NoSlot THEN NoSlot
    ELSE IF ~is_valid(m[ppn[1]][idx]) THEN NoSlot
    ELSE <<pte_ppn(m[ppn[1]][idx])>>

\* the leaf slot in frame ppn, or NoSlot
SlotFind(ppn, idx) == IF ppn = NoSlot THEN NoSlot ELSE <<ppn[1], idx>>

\* PageTable::find_pte: the leaf slot <<frame, index>>, or NoSlot when a
\* directory on the path is missing
find_pte(m, root_ppn, vpn) ==
    SlotFind(StepFind(m, StepFind(m, <<root_ppn>>, indexes(vpn)[1]), indexes(vpn)[2]),
             indexes(vpn)[3])

\* the entry in a slot as Option<PageTableEntry>: <<>> or <<bits>>
ReadSlot(m, slot) == IF slot = NoSlot THEN NoPte ELSE <<m[slot[1]][slot[2]]>>

\* PageTable::translate
translate(m, root_ppn, vpn) == ReadSlot(m, find_pte(m, root_ppn, vpn))

\* mutant: map overwrites a valid leaf entry
SetLeaf_Remap(r, ppn, flags) ==
    IF r.s.panic THEN [s |-> r.s, ret |-> 0]
    ELSE [s |-> [r.s EXCEPT !.mem[r.slot[1]][r.slot[2]] =
                    PageTableEntry_new(ppn, BitOr8(flags, PTE_V))],
          ret |-> 0]

\* PageTable::map after its find_pte_create(vpn).unwrap() gave r: [s, ret]
SetLeaf(r, ppn, flags) ==
    IF r.s.panic THEN [s |-> r.s, ret |-> 0]
    ELSE IF is_valid(r.s.mem[r.slot[1]][r.slot[2]]) THEN [s |-> r.s, ret |-> -1]
    ELSE [s |-> [r.s EXCEPT !.mem[r.slot[1]][r.slot[2]] =
                    PageTableEntry_new(ppn, BitOr8(flags, PTE_V))],
          ret |-> 0]

\* PageTable::map: [s, ret]
map(s, root_ppn, vpn, ppn, flags) ==
    SetLeaf(find_pte_create(s, root_ppn, vpn), ppn, flags)

\* PageTable::unmap after its find_pte(vpn) gave slot: [mem, ret, panic];
\* find_pte(vpn).unwrap() panics on None
ClearLeaf(m, slot) ==
    IF slot = NoSlot THEN [mem |-> m, ret |-> 0, panic |-> TRUE]
    ELSE IF ~is_valid(m[slot[1]][slot[2]])
    THEN [mem |-> m, ret |-> -1, panic |-> FALSE]
    ELSE [mem |-> [m EXCEPT ![slot[1]][slot[2]] = PageTableEntry_empty],
          ret |-> 0, panic |-> FALSE]

\* PageTable::unmap
unmap(m, root_ppn, vpn) == ClearLeaf(m, find_pte(m, root_ppn, vpn))

\* a call of page_table.map(vpn, ppn, flags)
PtMap(vpn, ppn, flags) ==
    /\ pt_pc = "run"
    /\ pt_count < MaxOps
    /\ \E r \in {map([mem |-> mem, pool |-> pool, frames |-> page_table.frames,
                      panic |-> FALSE], page_table.root_ppn, vpn, ppn, flags)} :
           /\ mem' = r.s.mem
           /\ pool' = r.s.pool
           /\ page_table' = [page_table EXCEPT !.frames = r.s.frames]
           /\ pt_pc' = IF r.s.panic THEN "panicked" ELSE "run"
           /\ pt_last' = [op |-> "map", vpn |-> vpn, ppn |-> ppn, flags |-> flags,
                          ret |-> r.ret, panic |-> r.s.panic]
    /\ pt_count' = pt_count + 1
    /\ UNCHANGED schedVars

\* a call of page_table.unmap(vpn)
PtUnmap(vpn) ==
    /\ pt_pc = "run"
    /\ pt_count < MaxOps
    /\ \E r \in {unmap(mem, page_table.root_ppn, vpn)} :
           /\ mem' = r.mem
           /\ pt_pc' = IF r.panic THEN "panicked" ELSE "run"
           /\ pt_last' = [op |-> "unmap", vpn |-> vpn, ppn |-> 0, flags |-> 0,
                          ret |-> r.ret, panic |-> r.panic]
    /\ pt_count' = pt_count + 1
    /\ UNCHANGED <<pool, page_table>>
    /\ UNCHANGED schedVars

\* the mapping of vpn: <<ppn, flags>> of its valid leaf entry, or <<>>
Mapping(m, root_ppn, vpn) ==
    IF translate(m, root_ppn, vpn) = NoPte THEN <<>>
    ELSE IF ~is_valid(translate(m, root_ppn, vpn)[1]) THEN <<>>
    ELSE << pte_ppn(translate(m, root_ppn, vpn)[1]),
            pte_flags(translate(m, root_ppn, vpn)[1]) >>

\* the VPNs whose leaf entry is valid
ValidLeaves(m, root_ppn) == {v \in AllVpns : Mapping(m, root_ppn, v) # <<>>}

\* ------------------------------------------------- mmap, munmap, buffers
\* VirtAddr::floor, VirtAddr::page_offset, VirtAddr::from(VirtPageNum)
floor(va) == va \div PAGE_SIZE
page_offset(va) == va % PAGE_SIZE
VirtAddr_from(vpn) == vpn * PAGE_SIZE
Min(a, b) == IF a < b THEN a ELSE b

\* PageTable::token: 8 << 60 | root_ppn, as the pair of the mode tag (the top
\* four bits) and the low 60 bits
token(root_ppn) == [mode |-> SATP_MODE, low |-> root_ppn]

\* PageTable::from_token: the root is satp & ((1 << 44) - 1), no frame owned
from_token(satp) == [root_ppn |-> LowBits(satp.low, PPN_WIDTH), frames |-> <<>>]

\* PTEFlags::from_usize: value as u8
PTEFlags_from_usize(value) == value % (2^8)

\* the flags mm_map computes: from_usize((port << 1) | 0x09)
mm_flags(port) == PTEFlags_from_usize(BitOr8(port * 2, 9))

\* frame_dealloc: a released frame is the next one handed out
frame_dealloc(pl, f) == <<f>> \o pl

\* dropping a Vec<FrameTracker>: every frame is released, first to last
RECURSIVE DropFrames(_, _)
DropFrames(pl, frames) ==
    IF frames = <<>> THEN pl
    ELSE DropFrames(frame_dealloc(pl, Head(frames)), Tail(frames))

\* allocate_free_ppn on a non-empty pool: frame_alloc hands out the pool's
\* next frame zeroed, and the FrameTracker is dropped as soon as its ppn is
\* read, which releases the frame again; the ppn returned is Head(s.pool)
allocate_free_ppn(s) ==
    [s EXCEPT !.mem[Head(s.pool)] = ZeroFrame,
              !.pool = frame_dealloc(Tail(s.pool), Head(s.pool))]

\* the loop of mm_map from address sta: [s, result, done]; done (not a value
\* of the program) collects the pages on which map returned 0
RECURSIVE mm_map_loop(_, _, _, _, _, _)
\* the rest of the loop after page_table.map(vpn, ..) gave r
mm_map_next(r, root_ppn, vpn, end, flags, done) ==
    mm_map_loop(r.s, root_ppn, Min(VirtAddr_from(vpn), end), end, flags,
                IF ~r.s.panic /\ r.ret = 0 THEN done \cup {vpn} ELSE done)

mm_map_loop(s, root_ppn, sta, end, flags, done) ==
    IF s.panic \/ ~(sta < end) THEN [s |-> s, result |-> 0, done |-> done]
    ELSE IF s.pool = <<>> THEN [s |-> s, result |-> -1, done |-> done]
    ELSE mm_map_next(map(allocate_free_ppn(s), root_ppn, floor(sta) + 1,
                         Head(s.pool), flags),
                     root_ppn, floor(sta) + 1, end, flags, done)

\* the end of mm_map: its page_table view is dropped, and with it the frames
\* the view took for directories
DropView(r) ==
    IF r.s.panic THEN r
    ELSE [s |-> [r.s EXCEPT !.pool = DropFrames(r.s.pool, r.s.frames), !.frames = <<>>],
          result |-> r.result, done |-> r.done]

\* mm_map: [s, result, done]; s.frames are the frames of the from_token view
mm_map(m, pl, satp, start, len, port) ==
    DropView(mm_map_loop([mem |-> m, pool |-> pl, frames |-> from_token(satp).frames,
                          panic |-> FALSE],
                         from_token(satp).root_ppn, start, start + len, mm_flags(port),
                         {}))

\* the loop of mm_unmap from address sta: [mem, ret, panic] of the last unmap
RECURSIVE mm_unmap_loop(_, _, _, _)
mm_unmap_loop(r, root_ppn, sta, end) ==
    IF r.panic \/ ~(sta < end) THEN r
    ELSE mm_unmap_loop(unmap(r.mem, root_ppn, floor(sta) + 1),
                       root_ppn, Min(VirtAddr_from(floor(sta) + 1), end), end)

\* mm_unmap: [mem, result, panic]; result is 0 whatever unmap returned
mm_unmap(m, satp, start, len) ==
    [mem    |-> mm_unmap_loop([mem |-> m, ret |-> 0, panic |-> FALSE],
                              from_token(satp).root_ppn, start, start + len).mem,
     panic  |-> mm_unmap_loop([mem |-> m, ret |-> 0, panic |-> FALSE],
                              from_token(satp).root_ppn, start, start + len).panic,
     result |-> 0]

\* translate(vpn).unwrap().ppn() in translated_byte_buffer: <<ppn>>, or <<>>
\* where unwrap panics
UnwrapPpn(pte) == IF pte = NoPte THEN <<>> ELSE <<pte_ppn(pte[1])>>

\* mutant: the slice always runs to the end of its page
Slice_ToPageEnd(ppn, start, end_va) ==
    [ppn |-> ppn, from |-> page_offset(start), to |-> PAGE_SIZE]

\* the slice pushed for the page of start: bytes from..to of frame ppn
Slice(ppn, start, end_va) ==
    [ppn  |-> ppn,
     from |-> page_offset(start),
     to   |-> IF page_offset(end_va) = 0 THEN PAGE_SIZE ELSE page_offset(end_va)]

\* the loop of translated_byte_buffer: [v, panic]
RECURSIVE tbb_loop(_, _, _, _, _)
tbb_loop(m, root_ppn, start, end, v) ==
    IF ~(start < end) THEN [v |-> v, panic |-> FALSE]
    ELSE IF UnwrapPpn(translate(m, root_ppn, floor(start))) = <<>>
    THEN [v |-> v, panic |-> TRUE]
    ELSE tbb_loop(m, root_ppn, Min(VirtAddr_from(floor(start) + 1), end), end,
                  Append(v, Slice(UnwrapPpn(translate(m, root_ppn, floor(start)))[1],
                                  start, Min(VirtAddr_from(floor(start) + 1), end))))

\* translated_byte_buffer
translated_byte_buffer(m, satp, ptr, len) ==
    tbb_loop(m, from_token(satp).root_ppn, ptr, ptr + len, <<>>)

\* a call of mm_map(token, start, len, port) on the page table's token
MmMap(start, len, port) ==
    /\ pt_pc = "run"
    /\ pt_count < MaxMmOps
    /\ \E r \in {mm_map(mem, pool, token(page_table.root_ppn), start, len, port)} :
           /\ mem' = r.s.mem
           /\ pool' = r.s.pool
           /\ pt_pc' = IF r.s.panic THEN "panicked" ELSE "run"
           /\ pt_last' = [op |-> "mmap", start |-> start, len |-> len, port |-> port,
                          ret |-> r.result, panic |-> r.s.panic,
                          before |-> ValidLeaves(mem, page_table.root_ppn),
                          done |-> r.done]
    /\ pt_count' = pt_count + 1
    /\ UNCHANGED page_table
    /\ UNCHANGED schedVars

\* a call of mm_unmap(token, start, len)
MmUnmap(start, len) ==
    /\ pt_pc = "run"
    /\ pt_count < MaxMmOps
    /\ \E r \in {mm_unmap(mem, token(page_table.root_ppn), start, len)} :
           /\ mem' = r.mem
           /\ pt_pc' = IF r.panic THEN "panicked" ELSE "run"
           /\ pt_last' = [op |-> "munmap", start |-> start, len |-> len,
                          ret |-> r.result, panic |-> r.panic]
    /\ pt_count' = pt_count + 1
    /\ UNCHANGED <<pool, page_table>>
    /\ UNCHANGED schedVars

\* a call of translated_byte_buffer(token, ptr, len)
Tbb(ptr, len) ==
    /\ pt_pc = "run"
    /\ pt_count < MaxOps
    /\ \E r \in {translated_byte_buffer(mem, token(page_table.root_ppn), ptr, len)} :
           /\ pt_pc' = IF r.panic THEN "panicked" ELSE "run"
           /\ pt_last' = [op |-> "tbb", ptr |-> ptr, len |-> len, v |-> r.v,
                          panic |-> r.panic]
    /\ pt_count' = pt_count + 1
    /\ UNCHANGED <<mem, pool, page_table>>
    /\ UNCHANGED schedVars

\* ------------------------------------------------------ sys_get_time, sys_task_info
\* size_of::<TimeVal>(): two usize
TimeVal_size == 2 * 8

\* size_of::<TaskInfo>(): the status byte, MAX_SYSCALL_NUM u32 counters and a
\* usize, in a struct aligned to 8
TaskInfo_size == 8 * ((1 + (4 * MAX_SYSCALL_NUM) + 8 + 7) \div 8)

\* the physical bytes lo..hi-1
Bytes(lo, hi) == lo..(hi - 1)

\* `*ptr = record` through v[0].as_ptr(): size bytes are stored from the
\* physical address of the first slice on, whatever the slice's length is
StoreAt(r, size) ==
    IF r.panic \/ r.v = <<>>
    THEN [written |-> {}, panic |-> TRUE]
    ELSE [written |-> Bytes((r.v[1].ppn * PAGE_SIZE) + r.v[1].from,
                            (r.v[1].ppn * PAGE_SIZE) + r.v[1].from + size),
          panic   |-> FALSE]

\* sys_get_time and sys_task_info: translated_byte_buffer(token, ptr, 8), then
\* the record is stored through v[0]
sys_store(m, satp, ptr, size) == StoreAt(translated_byte_buffer(m, satp, ptr, 8), size)

\* a call of sys_get_time(ts, _) or sys_task_info(ti) by the task that owns
\* the page table; size is the size of the record
SysStore(op, ptr, size) ==
    /\ pt_pc = "run"
    /\ pt_count < MaxOps
    /\ \E r \in {sys_store(mem, token(page_table.root_ppn), ptr, size)} :
           /\ pt_pc' = IF r.panic THEN "panicked" ELSE "run"
           /\ pt_last' = [op |-> op, ptr |-> ptr, size |-> size,
                          written |-> r.written, panic |-> r.panic]
    /\ pt_count' = pt_count + 1
    /\ UNCHANGED <<mem, pool, page_table>>
    /\ UNCHANGED schedVars

sys_get_time(ts) == SysStore("sys_get_time", ts, TimeVal_size)
sys_task_info(ti) == SysStore("sys_task_info", ti, TaskInfo_size)

\* ------------------------------------------------------------ specifications
vars == <<schedVars, ptVars>>

\* the page table is not exercised
NoCall == [op |-> "none", vpn |-> 0, ppn |-> 0, flags |-> 0, ret |-> 0, panic |-> FALSE]

PtOff ==
    /\ mem = <<>>
    /\ pool = <<>>
    /\ page_table = [root_ppn |-> 0, frames |-> <<>>]
    /\ pt_last = NoCall
    /\ pt_count = 0
    /\ pt_pc = "off"

\* the scheduler is not exercised
SchedOff ==
    /\ ready_queue = <<>>
    /\ tcb = <<>>
    /\ current = None
    /\ task = None
    /\ pc = "off"
    /\ selections = <<>>
    /\ borrowed = {}

Init ==
    /\ ready_queue = <<>>
    /\ tcb = <<>>
    /\ current = None
    /\ task = None
    /\ pc = "boot"
    /\ selections = <<>>
    /\ borrowed = {}
    /\ PtOff

Next ==
    \/ \E p \in PrioChoices : NewTask(p)
    \/ StartRunTasks
    \/ RunTasksFetch(MaxFetches)
    \/ RunTasksSwitch
    \/ Suspend
    \/ Exit
    \/ schedule

Spec == Init /\ [][Next]_vars

\* A fixed set of tasks, all queued at start with stride 0, each re-added
\* after its turn (every turn ends in a yield).
InitRounds ==
    /\ \E n \in 1..NumTasks :
         /\ tcb \in [1..n -> [task_status : {"Ready"}, stride : {ToIsize(0)},
                              priority : RoundPrios,
                              task_info : {TaskInfo_new("UnInit")}]]
         /\ ready_queue = [i \in 1..n |-> i]
    /\ current = None
    /\ task = None
    /\ pc = "idle"
    /\ selections = <<>>
    /\ borrowed = {}
    /\ PtOff

NextRounds ==
    \/ RunTasksFetch(MaxRounds)
    \/ RunTasksSwitch
    \/ Suspend
    \/ schedule

SpecRounds == InitRounds /\ [][NextRounds]_vars

\* The same fixed set of tasks after a long run, at a moment when all strides
\* are equal again: (2^35 - 1) * BIG_STRIDE = 2^63 - 2^28, one pass of a
\* priority 1 task below the end of isize.
TopStride == <<(TopSpan \div 2) - 1, Limb - 1, 0>>

InitTop ==
    /\ \E n \in 1..NumTasks :
         /\ tcb \in [1..n -> [task_status : {"Ready"}, stride : {TopStride},
                              priority : {1, 2, 4},
                              task_info : {TaskInfo_new("UnInit")}]]
         /\ ready_queue = [i \in 1..n |-> i]
    /\ current = None
    /\ task = None
    /\ pc = "idle"
    /\ selections = <<>>
    /\ borrowed = {}
    /\ PtOff

NextTop ==
    \/ RunTasksFetch(MaxFetches)
    \/ RunTasksSwitch
    \/ Suspend
    \/ schedule

SpecTop == InitTop /\ [][NextTop]_vars

\* The run loop under weak fairness: the idle loop keeps fetching and
\* dispatching, and every dispatched task ends its turn with a yield.
NextFair ==
    \/ RunTasksFetch(MaxRounds)
    \/ RunTasksSwitch
    \/ Suspend
    \/ schedule

SpecFair == InitTop /\ [][NextFair]_vars /\ WF_vars(NextFair)

\* The scheduler with the syscalls of the running task that keep its
\* accounting: a fixed set of tasks, each turn ending in a yield or an exit.
SyscallChoices == {0, MAX_SYSCALL_NUM - 1, MAX_SYSCALL_NUM}

InitAcct ==
    /\ \E n \in 1..NumTasks :
         /\ tcb \in [1..n -> [task_status : {"Ready"}, stride : {ToIsize(0)},
                              priority : {1, 2},
                              task_info : {TaskInfo_new("UnInit")}]]
         /\ ready_queue = [i \in 1..n |-> i]
    /\ current = None
    /\ task = None
    /\ pc = "idle"
    /\ selections = <<>>
    /\ borrowed = {}
    /\ PtOff

NextAcct ==
    \/ RunTasksFetch(MaxAcctFetches)
    \/ RunTasksSwitch
    \/ Suspend
    \/ Exit
    \/ schedule
    \/ \E c \in SyscallChoices, f \in BOOLEAN : UpdateTaskInfo(c, f)

SpecAcct == InitAcct /\ [][NextAcct]_vars

\* A page table made by PageTable::new (its root frame taken from the pool),
\* then map and unmap calls on it.
InitPT ==
    /\ page_table = [root_ppn |-> 1, frames |-> <<1>>]
    /\ pool = [i \in 1..(NumFrames - 1) |-> i + 1]
    /\ mem = [f \in MemPpns |-> ZeroFrame]
    /\ pt_last = NoCall
    /\ pt_count = 0
    /\ pt_pc = "run"
    /\ SchedOff

NextPT ==
    \/ \E v \in VPNs, p \in PPNs, f \in FlagChoices : PtMap(v, p, f)
    \/ \E v \in VPNs : PtUnmap(v)

SpecPT == InitPT /\ [][NextPT]_vars

\* The same page table, with mmap and munmap calls made through its token
\* next to map and unmap calls on the table itself.
NextMM ==
    \/ \E a \in MmStartVpns, l \in MmLens, p \in PortChoices :
         MmMap(VirtAddr_from(a), l, p)
    \/ \E a \in MmStartVpns, l \in MmLens : MmUnmap(VirtAddr_from(a), l)
    \/ \E v \in VPNs, p \in PPNs, f \in FlagChoices : PtMap(v, p, f)
    \/ \E v \in VPNs : PtUnmap(v)

SpecMM == InitPT /\ [][NextMM]_vars

\* The same page table, with user buffers translated through its token.
TbbPtrs == {VirtAddr_from(v) + o : v \in {0, 1}, o \in {0, 8, PAGE_SIZE - 4}}
TbbLens == {0, 8, PAGE_SIZE, PAGE_SIZE + 8}

NextTbb ==
    \/ \E v \in VPNs, p \in PPNs, f \in FlagChoices : PtMap(v, p, f)
    \/ \E v \in VPNs : PtUnmap(v)
    \/ \E ptr \in TbbPtrs, l \in TbbLens : Tbb(ptr, l)

SpecTbb == InitPT /\ [][NextTbb]_vars

\* The same page table, with the two syscalls that store a record at a user
\* pointer.
NextSys ==
    \/ \E v \in VPNs, p \in PPNs, f \in FlagChoices : PtMap(v, p, f)
    \/ \E v \in VPNs : PtUnmap(v)
    \/ \E ts \in TbbPtrs : sys_get_time(ts)
    \/ \E ti \in TbbPtrs : sys_task_info(ti)

SpecSys == InitPT /\ [][NextSys]_vars

\* ------------------------------------------------------------------ claims
Abs(x) == IF x < 0 THEN -x ELSE x

\* how often task t was returned by fetch_min_task
Count(t) == Cardinality({i \in DOMAIN selections : selections[i] = t})

\* a step of run_tasks in which fetch_min_task returned a task
FetchedStep == pc = "idle" /\ pc' = "fetched"

\* C1: a fetch on a non-empty Ready Set returns the entry of numerically
\* smallest stride, the earliest one among equals, removes exactly that entry
\* and keeps the others in their order.
C1_FetchMinStride ==
    [][FetchedStep =>
        \E i \in 1..Len(ready_queue) :
            /\ task' = ready_queue[i]
            /\ \A j \in 1..Len(ready_queue) :
                 IsizeVal(tcb[ready_queue[i]].stride) <= IsizeVal(tcb[ready_queue[j]].stride)
            /\ \A j \in 1..(i - 1) :
                 IsizeVal(tcb[ready_queue[i]].stride) < IsizeVal(tcb[ready_queue[j]].stride)
            /\ ready_queue' = SubSeq(ready_queue, 1, i - 1)
                                \o SubSeq(ready_queue, i + 1, Len(ready_queue))]_vars

\* a task was fetched from behind a larger stride, ahead of an equal one
C1_Witness ==
    /\ pc = "fetched"
    /\ Len(ready_queue) >= 2
    /\ \E j \in 1..Len(ready_queue) :
         IsizeVal(tcb[ready_queue[j]].stride) + Pass(tcb[task].priority)
            = IsizeVal(tcb[task].stride)
    /\ IsizeVal(tcb[ready_queue[1]].stride) > IsizeVal(tcb[task].stride)

\* C2: a fetch on an empty Ready Set returns None without aborting and the
\* run loop stays in its loop.
C2_EmptyFetchReturnsNone ==
    [][(pc = "idle" /\ ready_queue = <<>>) => (pc' = "idle" /\ task' = None)]_vars

\* C3: a fetch adds BIG_STRIDE div priority to the returned task's stride and
\* changes no other stride and no priority.
C3_StrideBump ==
    [][FetchedStep =>
        /\ tcb'[task'].stride[1] = 0
        /\ IsizeVal(tcb'[task'].stride)
             = IsizeVal(tcb[task'].stride) + (BIG_STRIDE \div tcb[task'].priority)
        /\ DOMAIN tcb' = DOMAIN tcb
        /\ \A t \in DOMAIN tcb :
             /\ tcb'[t].priority = tcb[t].priority
             /\ t # task' => tcb'[t].stride = tcb[t].stride]_vars

\* a priority-3 task was fetched a second time while another task exists
C3_Witness ==
    /\ pc = "fetched"
    /\ tcb[task].priority = 3
    /\ IsizeVal(tcb[task].stride) = 2 * (BIG_STRIDE \div 3)
    /\ \E t \in DOMAIN tcb : t # task /\ IsizeVal(tcb[t].stride) > 0

\* exactly the two tasks a and b exist, with priorities pa and pb
TwoTasks(a, b, pa, pb) ==
    /\ a # b
    /\ DOMAIN tcb = {a, b}
    /\ tcb[a].priority = pa
    /\ tcb[b].priority = pb

\* C4 as stated: of two tasks with priorities 2 and 4, the priority-2 task is
\* selected about twice as often as the priority-4 task (within 2).
C4_Prio2TwiceAsOften ==
    \A a, b \in DOMAIN tcb :
        TwoTasks(a, b, 2, 4) => Abs(Count(a) - 2 * Count(b)) <= 2

\* C4 amended: of two tasks with priorities 2 and 4, the priority-4 task is
\* selected about twice as often as the priority-2 task (within 2).
C4_Prio4TwiceAsOften ==
    \A a, b \in DOMAIN tcb :
        TwoTasks(a, b, 2, 4) => Abs(Count(b) - 2 * Count(a)) <= 2

C4_Witness ==
    \E a, b \in DOMAIN tcb :
        TwoTasks(a, b, 2, 4) /\ Count(a) >= 4 /\ Count(b) >= 8

\* C5: of two tasks with priorities P and 1, P dividing BIG_STRIDE, the
\* priority-P task is selected about P times as often (within P); its pass is
\* a P-th of the other's.
C5_PrioPTimesAsOften ==
    \A a, b \in DOMAIN tcb : \A P \in RoundPrios :
        (TwoTasks(a, b, P, 1) /\ BIG_STRIDE % P = 0) =>
            /\ Abs(Count(a) - P * Count(b)) <= P
            /\ P * Pass(tcb[a].priority) = Pass(tcb[b].priority)

C5_Witness ==
    \E a, b \in DOMAIN tcb :
        TwoTasks(a, b, 4, 1) /\ Count(b) >= 3 /\ Count(a) >= 12

\* C6: two tasks of equal priority, added as 1 then 2, are dispatched in
\* strict alternation 1, 2, 1, 2, ...
C6_Alternation ==
    (DOMAIN tcb = {1, 2} /\ tcb[1].priority = tcb[2].priority) =>
        \A i \in DOMAIN selections : selections[i] = IF i % 2 = 1 THEN 1 ELSE 2

C6_Witness ==
    /\ DOMAIN tcb = {1, 2}
    /\ tcb[1].priority = 1
    /\ tcb[2].priority = 1
    /\ pc = "task"
    /\ Len(selections) >= 4
\* the TCBs in Running status
RunningTasks == {t \in DOMAIN tcb : tcb[t].task_status = "Running"}

MapStep == pt_count' = pt_count + 1 /\ pt_last'.op = "map" /\ ~pt_last'.panic

\* C8: after map(v, p, f) succeeds on a table where v was not mapped,
\* translate(v) gives an entry with PPN p and flags exactly f plus Valid, and
\* the translation of every other VPN is as before: its mapping (the PPN and
\* flags of its valid leaf entry, or none) is the same, and so is the entry
\* translate gave for it if it gave one.
C8_MapThenTranslate ==
    [][(MapStep /\ pt_last'.ret = 0
          /\ Mapping(mem, page_table.root_ppn, pt_last'.vpn) = <<>>) =>
        /\ translate(mem', page_table'.root_ppn, pt_last'.vpn) # NoPte
        /\ pte_ppn(translate(mem', page_table'.root_ppn, pt_last'.vpn)[1]) = pt_last'.ppn
        /\ \A i \in 0..7 :
             Bit(pte_flags(translate(mem', page_table'.root_ppn, pt_last'.vpn)[1]), i) = 1
               <=> (Bit(pt_last'.flags, i) = 1 \/ 2^i = PTE_V)
        /\ \A u \in VPNs \ {pt_last'.vpn} :
             /\ Mapping(mem', page_table'.root_ppn, u) = Mapping(mem, page_table.root_ppn, u)
             /\ translate(mem, page_table.root_ppn, u) # NoPte =>
                  translate(mem', page_table'.root_ppn, u)
                    = translate(mem, page_table.root_ppn, u)]_vars

\* map(v, 1, R|W|U) succeeded while two other VPNs stay mapped
C8_Witness ==
    /\ pt_last.op = "map" /\ pt_last.ret = 0 /\ ~pt_last.panic
    /\ pt_last.ppn = 1 /\ pt_last.flags = PTE_R + PTE_W + PTE_U
    /\ translate(mem, page_table.root_ppn, pt_last.vpn)
         = <<PageTableEntry_new(1, PTE_V + PTE_R + PTE_W + PTE_U)>>
    /\ Cardinality({u \in VPNs : Mapping(mem, page_table.root_ppn, u) # <<>>}) = 3

\* C9: map on a VPN whose leaf entry is valid returns -1, leaves the entry as
\* it was and takes no frame for a directory.
C9_MapOnMappedFails ==
    [][(pt_count' = pt_count + 1 /\ pt_last'.op = "map"
          /\ Mapping(mem, page_table.root_ppn, pt_last'.vpn) # <<>>) =>
        /\ ~pt_last'.panic
        /\ pt_last'.ret = -1
        /\ translate(mem', page_table'.root_ppn, pt_last'.vpn)
             = translate(mem, page_table.root_ppn, pt_last'.vpn)
        /\ pool' = pool
        /\ page_table' = page_table]_vars

\* a second map of a mapped VPN, with another PPN and other flags, returned -1
C9_Witness ==
    /\ pt_last.op = "map" /\ pt_last.ret = -1
    /\ Mapping(mem, page_table.root_ppn, pt_last.vpn) # <<>>
    /\ Mapping(mem, page_table.root_ppn, pt_last.vpn)[1] # pt_last.ppn
    /\ Mapping(mem, page_table.root_ppn, pt_last.vpn)[2] # BitOr8(pt_last.flags, PTE_V)

\* C10: after a successful unmap(v) of a VPN that map had mapped,
\* translate(v) reports absence (no PTE).
C10_UnmapThenAbsent ==
    (pt_last.op = "unmap" /\ ~pt_last.panic /\ pt_last.ret = 0) =>
        translate(mem, page_table.root_ppn, pt_last.vpn) = NoPte

\* C11: unmap(v) on a VPN that is not mapped (its leaf entry invalid, or a
\* directory on its path missing) returns -1, changes no page-table entry and
\* does not abort the kernel.
C11_UnmapUnmappedFails ==
    [][(pt_count' = pt_count + 1 /\ pt_last'.op = "unmap"
          /\ Mapping(mem, page_table.root_ppn, pt_last'.vpn) = <<>>) =>
        /\ ~pt_last'.panic
        /\ pt_last'.ret = -1
        /\ mem' = mem]_vars

\* the VPNs of the pages of [start, start + len)
PagesOf(start, len) == {v \in AllVpns : floor(start) <= v /\ v <= floor(start + len - 1)}

\* a step that is a call of mm_map
MmMapStep == pt_count' = pt_count + 1 /\ pt_last'.op = "mmap"

\* C12: mmap(token, start, len, port) with page-aligned start and len > 0, on
\* a range with no page mapped and enough free frames, makes valid the leaf
\* entry of every page of [start, start + len) and of no page outside it.
C12_MmapMapsRange ==
    [][(MmMapStep /\ page_offset(pt_last'.start) = 0 /\ pt_last'.len > 0
          /\ PagesOf(pt_last'.start, pt_last'.len)
               \cap ValidLeaves(mem, page_table.root_ppn) = {}
          /\ Len(pool) >= Cardinality(PagesOf(pt_last'.start, pt_last'.len)) + 2) =>
        /\ ~pt_last'.panic
        /\ ValidLeaves(mem', page_table'.root_ppn)
             = ValidLeaves(mem, page_table.root_ppn)
                 \cup PagesOf(pt_last'.start, pt_last'.len)]_vars

\* C13: for every port in 0..7, every leaf entry mmap installs carries
\* exactly Valid, User, and Read / Write / Execute iff port bit 0 / 1 / 2 is
\* set; Global, Accessed and Dirty are clear.
C13_MmapFlags ==
    [][(MmMapStep /\ ~pt_last'.panic) =>
        \A v \in ValidLeaves(mem', page_table'.root_ppn)
                   \ ValidLeaves(mem, page_table.root_ppn) :
            Mapping(mem', page_table'.root_ppn, v)[2]
              = PTE_V + PTE_U + (PTE_R * Bit(pt_last'.port, 0))
                  + (PTE_W * Bit(pt_last'.port, 1)) + (PTE_X * Bit(pt_last'.port, 2))]_vars

\* C14: mmap over a range that contains a page whose leaf entry is already
\* valid returns a negative value, never 0.
C14_MmapOnMappedFails ==
    [][(MmMapStep
          /\ PagesOf(pt_last'.start, pt_last'.len)
               \cap ValidLeaves(mem, page_table.root_ppn) # {}) =>
        (~pt_last'.panic /\ pt_last'.ret < 0)]_vars

\* C15: after a successful mmap(token, start, len, port), munmap(token, start,
\* len) with the same start and len leaves the set of valid leaf entries as it
\* was before the mmap.
C15_MunmapUndoesMmap ==
    [][(pt_last.op = "mmap" /\ ~pt_last.panic /\ pt_last.ret = 0
          /\ pt_count' = pt_count + 1 /\ pt_last'.op = "munmap"
          /\ pt_last'.start = pt_last.start /\ pt_last'.len = pt_last.len) =>
        /\ ~pt_last'.panic
        /\ ValidLeaves(mem', page_table'.root_ppn) = pt_last.before]_vars

\* the sum of the lengths of the slices of v
RECURSIVE SliceSum(_)
SliceSum(v) == IF v = <<>> THEN 0 ELSE (Head(v).to - Head(v).from) + SliceSum(Tail(v))

\* the translated range [ptr, ptr + len) of the last call is fully mapped
TbbMapped ==
    /\ pt_last.op = "tbb"
    /\ pt_last.len > 0
    /\ \A p \in floor(pt_last.ptr)..floor(pt_last.ptr + pt_last.len - 1) :
         p \in ValidLeaves(mem, page_table.root_ppn)

\* C16: translated_byte_buffer over a fully mapped range [ptr, ptr + len)
\* returns one slice per page touched, in address order, each from its start
\* offset to the end of its page or of the range, whichever is nearer; the
\* lengths sum to len, and a range crossing exactly one page boundary gives
\* two slices split at the page-aligned address.
C16_ByteBufferSlices ==
    TbbMapped =>
        /\ ~pt_last.panic
        /\ Len(pt_last.v)
             = floor(pt_last.ptr + pt_last.len - 1) - floor(pt_last.ptr) + 1
        /\ \A k \in DOMAIN pt_last.v :
             /\ pt_last.v[k].ppn
                  = Mapping(mem, page_table.root_ppn, floor(pt_last.ptr) + k - 1)[1]
             /\ pt_last.v[k].from = IF k = 1 THEN page_offset(pt_last.ptr) ELSE 0
             /\ pt_last.v[k].to
                  = Min(PAGE_SIZE,
                        pt_last.ptr + pt_last.len
                          - VirtAddr_from(floor(pt_last.ptr) + k - 1))
        /\ SliceSum(pt_last.v) = pt_last.len
        /\ floor(pt_last.ptr + pt_last.len - 1) = floor(pt_last.ptr) + 1 =>
             /\ Len(pt_last.v) = 2
             /\ pt_last.v[1].to = PAGE_SIZE
             /\ pt_last.v[2].from = 0

\* eight bytes that start four bytes before the end of page 0 were translated
\* into two slices of two different frames
C16_Witness ==
    /\ TbbMapped
    /\ pt_last.ptr = PAGE_SIZE - 4 /\ pt_last.len = 8
    /\ Len(pt_last.v) = 2
    /\ pt_last.v[1].ppn # pt_last.v[2].ppn

\* C17: translated_byte_buffer over a range that contains an unmapped page
\* (leaf entry invalid, or a directory missing) returns no slice for that
\* page: the slices it has pushed stop before the first unmapped page.
C17_ByteBufferUnmappedFails ==
    (pt_last.op = "tbb" /\ pt_last.len > 0) =>
        \A p \in floor(pt_last.ptr)..floor(pt_last.ptr + pt_last.len - 1) :
            p \notin ValidLeaves(mem, page_table.root_ppn) =>
                Len(pt_last.v) <= p - floor(pt_last.ptr)

\* the frames the valid entries of directory frame f point to
DirTargets(m, f) == {pte_ppn(m[f][i]) : i \in {j \in IdxUsed : is_valid(m[f][j])}}

\* the frames that valid non-leaf entries reachable from the root point to
DirFrames(m, root_ppn) ==
    DirTargets(m, root_ppn) \cup UNION {DirTargets(m, f) : f \in DirTargets(m, root_ppn)}

\* the frames in the Frame Provider's pool
Free(pl) == {pl[i] : i \in DOMAIN pl}

\* C18: after any sequence of map, unmap, mmap and munmap, every valid
\* non-leaf entry reachable from the root points to a frame that is still
\* allocated (not in the Frame Provider's pool).
C18_DirFramesAllocated ==
    DirFrames(mem, page_table.root_ppn) \cap Free(pool) = {}

\* C19: every page mapped by mmap is backed by a frame that stays allocated:
\* when mmap returns, no leaf entry it made valid points to a frame in the
\* Frame Provider's pool, and no two of them point to the same frame.
C19_MmapFramesAllocated ==
    [][(MmMapStep /\ ~pt_last'.panic) =>
        \A v \in ValidLeaves(mem', page_table'.root_ppn)
                   \ ValidLeaves(mem, page_table.root_ppn) :
            /\ Mapping(mem', page_table'.root_ppn, v)[1] \notin Free(pool')
            /\ \A u \in ValidLeaves(mem', page_table'.root_ppn)
                          \ ValidLeaves(mem, page_table.root_ppn) :
                 u # v => Mapping(mem', page_table'.root_ppn, u)[1]
                            # Mapping(mem', page_table'.root_ppn, v)[1]]_vars

\* C20: when the Frame Provider has no free frame part-way through mmap (for
\* a page, or for a directory on the way to it), mmap returns a negative
\* value without aborting, and the pages it had mapped stay mapped.
C20_MmapExhaustion ==
    [][(MmMapStep /\ (pt_last'.panic \/ pt_last'.ret # 0)) =>
        /\ ~pt_last'.panic
        /\ pt_last'.ret < 0
        /\ pt_last'.done \subseteq ValidLeaves(mem', page_table'.root_ppn)]_vars

\* the TCBs in the Ready Set
InReadySet == {ready_queue[i] : i \in DOMAIN ready_queue}

\* C21: when run_tasks transfers control from the idle context into a task,
\* that task is Running, is the Processor's current task and is not in the
\* Ready Set; in no reachable state is a TCB both current and in the Ready Set.
C21_CurrentNotReady ==
    /\ [](current # None => current \notin InReadySet)
    /\ [][(pc = "fetched" /\ pc' = "task") =>
            /\ current' = task
            /\ tcb'[current'].task_status = "Running"
            /\ current' \notin {ready_queue'[i] : i \in DOMAIN ready_queue'}]_vars

\* a task is running a second turn while the other tasks wait in the Ready Set
C21_Witness ==
    /\ pc = "task"
    /\ current # None
    /\ Count(current) >= 2
    /\ Len(ready_queue) >= 2
    /\ tcb[current].task_status = "Running"

\* a context transfer: __switch in run_tasks, or __switch in schedule
ContextTransfer ==
    \/ pc = "fetched" /\ pc' = "task"
    \/ pc = "schedule" /\ pc' = "idle"

\* C22: at every context transfer no exclusive-access guard on the Processor,
\* the Task Manager or a TCB is held, none is held while a task flow runs, and
\* no operation acquires a cell whose guard is still held.
C22_NoGuardAcrossSwitch ==
    /\ [](Conflict \notin borrowed)
    /\ [](pc \in {"task", "schedule"} => borrowed = {})
    /\ [][ContextTransfer => borrowed' = {}]_vars

\* run_tasks holds its PROCESSOR guard between fetch and switch, after both
\* kinds of transfer have been made and a task has updated its accounting
C22_Witness ==
    /\ pc = "fetched"
    /\ borrowed = {PROCESSOR}
    /\ Len(selections) >= 2
    /\ \E t \in DOMAIN tcb : tcb[t].task_info.status = "Running"

\* the syscall indices that matter to a step from info to info2
CounterIdx(info, info2) ==
    SyscallChoices \cup DOMAIN info.syscall_times \cup DOMAIN info2.syscall_times

\* C23: update_task_info(syscall, add_flag) sets the current task's accounting
\* status to its task status; with add_flag and syscall < MAX_SYSCALL_NUM it
\* adds 1 to that syscall's counter and leaves the other counters alone;
\* otherwise no counter changes; nothing else of the current task and nothing
\* of any other task changes.
C23_UpdateAccounting ==
    [][\A c \in SyscallChoices, f \in BOOLEAN :
         (UpdateTaskInfo(c, f) /\ pc' = "task") =>
            /\ tcb'[current].task_info.status = tcb[current].task_status
            /\ \A i \in CounterIdx(tcb[current].task_info, tcb'[current].task_info) :
                 SyscallTimes(tcb'[current].task_info, i)
                   = SyscallTimes(tcb[current].task_info, i)
                       + (IF f /\ c < MAX_SYSCALL_NUM /\ i = c THEN 1 ELSE 0)
            /\ tcb'[current].task_status = tcb[current].task_status
            /\ tcb'[current].stride = tcb[current].stride
            /\ tcb'[current].priority = tcb[current].priority
            /\ \A t \in DOMAIN tcb \ {current} : tcb'[t] = tcb[t]]_vars

\* the running task has counted two syscalls 0 and one syscall
\* MAX_SYSCALL_NUM - 1, while another task has counted something else
C23_Witness ==
    /\ pc = "task"
    /\ current # None
    /\ tcb[current].task_info.status = "Running"
    /\ SyscallTimes(tcb[current].task_info, 0) = 2
    /\ SyscallTimes(tcb[current].task_info, MAX_SYSCALL_NUM - 1) = 1
    /\ SyscallTimes(tcb[current].task_info, MAX_SYSCALL_NUM) = 0
    /\ \E t \in DOMAIN tcb \ {current} :
         /\ tcb[t].task_info.status = "Running"
         /\ SyscallTimes(tcb[t].task_info, 0) = 0
         /\ SyscallTimes(tcb[t].task_info, MAX_SYSCALL_NUM - 1) = 1

\* the physical bytes the page table maps the user range [ptr, ptr + size) to
PhysBytes(m, root_ppn, ptr, size) ==
    UNION {Bytes((Mapping(m, root_ppn, p)[1] * PAGE_SIZE)
                   + (IF p = floor(ptr) THEN page_offset(ptr) ELSE 0),
                 (Mapping(m, root_ppn, p)[1] * PAGE_SIZE)
                   + Min(PAGE_SIZE, ptr + size - VirtAddr_from(p))) :
           p \in floor(ptr)..floor(ptr + size - 1)}

\* C24: sys_get_time and sys_task_info, called with a pointer whose range
\* [ptr, ptr + record size) is mapped, store into exactly the physical bytes
\* the page table maps that range to, also when the range crosses a page
\* boundary into a page backed by a frame that is not the next one.
C24_StoreInTranslatedRange ==
    (pt_last.op \in {"sys_get_time", "sys_task_info"}
       /\ \A p \in floor(pt_last.ptr)..floor(pt_last.ptr + pt_last.size - 1) :
            p \in ValidLeaves(mem, page_table.root_ppn)) =>
        /\ ~pt_last.panic
        /\ pt_last.written
             = PhysBytes(mem, page_table.root_ppn, pt_last.ptr, pt_last.size)

\* C25: no step makes the stride of a task smaller, also when the stride is at
\* the top of the range of isize: the addition of the pass does not wrap.
C25_StrideNeverDecreases ==
    [][\A t \in DOMAIN tcb : ~IsizeLt(tcb'[t].stride, tcb[t].stride)]_vars

\* C26: when every task has priority >= 2 (the tasks are a fixed set, created
\* with stride 0 and re-added after each turn), the largest stride is at most
\* BIG_STRIDE / 2 above the smallest one.
C26_StrideSpread ==
    (\A t \in DOMAIN tcb : tcb[t].priority >= 2) =>
        \A a, b \in DOMAIN tcb :
            IsizeWithin(tcb[a].stride, tcb[b].stride, BIG_STRIDE \div 2)

\* the selections within which a queued task has its turn when no stride
\* overflows: between two turns of a task, each other task (priority at most
\* 4 here) has at most four
MaxWait == 4 * NumTasks

\* C27: with every dispatched task re-added after its turn and the run loop
\* weakly fair, a task that is in the Ready Set (with MaxWait selections still
\* to come) is eventually returned by fetch_min_task.
C27_NoStarvation ==
    \A t \in Tasks :
        (t \in InReadySet /\ Len(selections) + MaxWait <= MaxRounds)
            ~> (pc = "fetched" /\ task = t)

====
